---- MODULE Spec2Model ----
(***************************************************************************)
(* merger.py: walk a directory tree for DICOM files, read a fixed set of   *)
(* tags from each file and stream them into one ';'-delimited table.       *)
(*                                                                         *)
(* Text is modelled as a sequence of one-character strings, so that every  *)
(* conversion of the program (strip, split, int(x, 16), str, replace,      *)
(* join, lower, endswith, the os.path functions) is computed, not assumed. *)
(* The alphabet of the model has no whitespace, sign, underscore or 'x',   *)
(* so int(x, 16) accepts exactly the non-empty strings of hex digits.      *)
(***************************************************************************)
EXTENDS Integers, Sequences, FiniteSets, TLC

(***************************************************************************)
(* Bounds of the model and constants of the program                        *)
(***************************************************************************)
\* the largest number of matching files a root directory holds
MaxFiles == 11

\* the largest number of failing operations on the destination in one run
MaxIOFaults == 1

\* random.sample(dicom_files, 10)
SampleSize == 10

\* a DICOM tag is two words of 16 bits: pydicom's Tag rejects anything above 0xFFFF
MaxTagWord == 65535

(***************************************************************************)
(* Python's text operations                                                *)
(***************************************************************************)
\* the position of the first ch in s, 0 when there is none (str.find)
Find(s, ch) ==
    IF \E i \in 1..Len(s) : s[i] = ch
    THEN CHOOSE i \in 1..Len(s) : s[i] = ch /\ \A j \in 1..(i - 1) : s[j] # ch
    ELSE 0

\* the position of the last ch in s, 0 when there is none (str.rfind)
RFind(s, ch) ==
    IF \E i \in 1..Len(s) : s[i] = ch
    THEN CHOOSE i \in 1..Len(s) : s[i] = ch /\ \A j \in (i + 1)..Len(s) : s[j] # ch
    ELSE 0

\* s.split(ch): always at least one part, empty parts kept
RECURSIVE Split(_, _)
Split(s, ch) ==
    IF Find(s, ch) = 0
    THEN <<s>>
    ELSE <<SubSeq(s, 1, Find(s, ch) - 1)>> \o Split(SubSeq(s, Find(s, ch) + 1, Len(s)), ch)

\* sep.join(parts)
RECURSIVE Join(_, _)
Join(parts, sep) ==
    IF parts = <<>> THEN <<>>
    ELSE IF Len(parts) = 1 THEN parts[1]
    ELSE parts[1] \o sep \o Join(Tail(parts), sep)

\* s.strip(chars): every leading and trailing character of the set removed
Strip(s, chars) ==
    LET keep == {i \in 1..Len(s) : s[i] \notin chars}
    IN  IF keep = {} THEN <<>>
        ELSE SubSeq(s, CHOOSE i \in keep : \A j \in keep : i <= j,
                       CHOOSE i \in keep : \A j \in keep : i >= j)

\* s.replace(a, b) for one-character a and b
Replace(s, a, b) == [i \in 1..Len(s) |-> IF s[i] = a THEN b ELSE s[i]]

\* s.endswith(suffix)
EndsWith(s, suffix) ==
    /\ Len(s) >= Len(suffix)
    /\ SubSeq(s, Len(s) - Len(suffix) + 1, Len(s)) = suffix

UpperChars == <<"A", "B", "C", "D", "E", "F", "G", "M", "P", "R", "T">>
LowerChars == <<"a", "b", "c", "d", "e", "f", "g", "m", "p", "r", "t">>

\* s.lower(), on the alphabet of the model
Lower(s) ==
    [i \in 1..Len(s) |->
        IF \E k \in 1..Len(UpperChars) : UpperChars[k] = s[i]
        THEN LowerChars[CHOOSE k \in 1..Len(UpperChars) : UpperChars[k] = s[i]]
        ELSE s[i]]

DecDigits == <<"0", "1", "2", "3", "4", "5", "6", "7", "8", "9">>
HexDigits == DecDigits \o <<"a", "b", "c", "d", "e", "f">>

IsHexDigit(c) == \E k \in 1..Len(HexDigits) : HexDigits[k] = Lower(<<c>>)[1]

HexValue(c) == (CHOOSE k \in 1..Len(HexDigits) : HexDigits[k] = Lower(<<c>>)[1]) - 1

\* int(x, 16) raises ValueError on the empty string and on any non-hex character
IntBase16Ok(x) == Len(x) > 0 /\ \A i \in 1..Len(x) : IsHexDigit(x[i])

RECURSIVE IntBase16(_)
IntBase16(x) ==
    IF x = <<>> THEN 0
    ELSE 16 * IntBase16(SubSeq(x, 1, Len(x) - 1)) + HexValue(x[Len(x)])

\* str(n) of a non-negative integer
RECURSIVE StrInt(_)
StrInt(n) == IF n < 10 THEN <<DecDigits[n + 1]>> ELSE StrInt(n \div 10) \o <<DecDigits[(n % 10) + 1]>>

(***************************************************************************)
(* os.path, for relative POSIX paths without '..' segments                 *)
(***************************************************************************)
\* os.path.normpath: empty and '.' segments dropped, no trailing separator
Normpath(p) ==
    LET segs == SelectSeq(Split(p, "/"), LAMBDA x : x # <<>> /\ x # <<".">>)
    IN  IF segs = <<>> THEN <<".">> ELSE Join(segs, <<"/">>)

\* os.path.basename: what follows the last separator
Basename(p) == SubSeq(p, RFind(p, "/") + 1, Len(p))

\* os.path.dirname: what precedes the last separator, '' when there is none
Dirname(p) ==
    LET head == SubSeq(p, 1, RFind(p, "/"))
    IN  IF \E i \in 1..Len(head) : head[i] # "/"
        THEN SubSeq(head, 1, CHOOSE i \in 1..Len(head) :
                                 head[i] # "/" /\ \A j \in (i + 1)..Len(head) : head[j] = "/")
        ELSE head

\* os.path.join(a, b)
PathJoin(a, b) ==
    IF Len(b) > 0 /\ b[1] = "/" THEN b
    ELSE IF a = <<>> \/ a[Len(a)] = "/" THEN a \o b
    ELSE a \o <<"/">> \o b

(***************************************************************************)
(* pydicom: tags, values and datasets                                      *)
(***************************************************************************)
\* the value of an element: text, a number, or None (an empty element of a
\* non-text value representation)
StrValue(s) == [t |-> "str", s |-> s, n |-> 0]
IntValue(n) == [t |-> "int", s |-> <<>>, n |-> n]
NoneValue == [t |-> "none", s |-> <<>>, n |-> 0]

\* str(value)
Str(v) ==
    CASE v.t = "str" -> v.s
      [] v.t = "int" -> StrInt(v.n)
      [] v.t = "none" -> <<"N", "o", "n", "e">>

\* pydicom.tag.Tag(tuple): a 2-tuple of words, anything else raises
TagRaises(words) == Len(words) # 2 \/ \E i \in 1..Len(words) : words[i] > MaxTagWord

\* convert_string_to_tag: the tag, or raised = TRUE when int() or Tag() raises
convert_string_to_tag(tag_str) ==
    LET tokens == Split(Strip(tag_str, {"(", ")"}), ",")
        bad    == \E i \in 1..Len(tokens) : ~IntBase16Ok(tokens[i])
        words  == [i \in 1..Len(tokens) |-> IntBase16(tokens[i])]
    IN  IF bad \/ TagRaises(words)
        THEN [raised |-> TRUE, tag |-> <<>>]
        ELSE [raised |-> FALSE, tag |-> words]

(***************************************************************************)
(* The files on disk.  File k of the tree has a name, a directory and a    *)
(* content fixed by k; a run sees the files lo..hi of them.                *)
(***************************************************************************)
TagModality == <<8, 96>>
TagPatient  == <<16, 16>>

\* what pydicom.dcmread finds in file k: raised = TRUE for a file that does not
\* decode, and else the dataset, a function from tags to values
FileContent(k) ==
    CASE k % 6 = 1 -> [raised |-> FALSE,
                       ds |-> (TagModality :> StrValue(<<"M", "R">>)) @@
                              (TagPatient :> StrValue(<<"A", ";", "B">>))]
      [] k % 6 = 2 -> [raised |-> TRUE, ds |-> <<>>]
      [] k % 6 = 3 -> [raised |-> FALSE,
                       ds |-> (TagModality :> StrValue(<<"C", "T">>))]
      [] k % 6 = 4 -> [raised |-> FALSE,
                       ds |-> (TagModality :> NoneValue) @@ (TagPatient :> IntValue(70))]
      [] k % 6 = 5 -> [raised |-> FALSE, ds |-> <<>>]
      [] k % 6 = 0 -> [raised |-> FALSE,
                       ds |-> (TagModality :> StrValue(<<"M", "R">>)) @@
                              (TagPatient :> StrValue(<<"D", "o", "e">>))]

\* the name of file k: every fifth name holds a ';', the extension varies in case
FileName(k) ==
    <<"f">> \o StrInt(k) \o (IF k % 5 = 0 THEN <<";">> ELSE <<>>)
            \o (IF k % 2 = 0 THEN <<".", "D", "C", "M">> ELSE <<".", "d", "c", "m">>)

\* every third file is in the subdirectory 'sub'
InSub(k) == k % 3 = 0

\* a file of the tree that is no DICOM file
OtherName == <<"r", ".", "t", "x", "t">>

\* the names of the files with the numbers of ks, in ascending order
RECURSIVE NamesOf(_)
NamesOf(ks) ==
    IF ks = {} THEN <<>>
    ELSE LET k == CHOOSE x \in ks : \A y \in ks : x <= y
         IN  <<FileName(k)>> \o NamesOf(ks \ {k})

\* os.walk(path): (dirpath, filenames) of the root and then of its subdirectory;
\* nothing at all when the root is no directory
Walk(path, exists, present) ==
    IF ~exists THEN <<>>
    ELSE << <<path, <<OtherName>> \o NamesOf({k \in present : ~InSub(k)})>>,
            <<PathJoin(path, <<"s", "u", "b">>), NamesOf({k \in present : InSub(k)})>> >>

\* the number of the file at a path list_dicom_files returned
FileAt(path) == CHOOSE k \in 1..MaxFiles : FileName(k) = Basename(path)

\* list_dicom_files: every file under path whose lowered name ends in '.dcm'
RECURSIVE Flatten(_)
Flatten(seqs) == IF seqs = <<>> THEN <<>> ELSE seqs[1] \o Flatten(Tail(seqs))

list_dicom_files(walk) ==
    Flatten([d \in 1..Len(walk) |->
        LET root  == walk[d][1]
            files == SelectSeq(walk[d][2],
                               LAMBDA file : EndsWith(Lower(file), <<".", "d", "c", "m">>))
        IN  [i \in 1..Len(files) |-> PathJoin(root, files[i])]])

(***************************************************************************)
(* The inputs of a run                                                     *)
(***************************************************************************)
\* the positional argument path_shared_folder
RootArgs == { <<"d", "a", "t", "a">>, <<"d", "a", "t", "a", "/">> }

\* the option --output_dir: not given, or a path
NoOutputArg == [given |-> FALSE, path |-> <<>>]
OutputArgs ==
    { NoOutputArg,
      [given |-> TRUE, path |-> <<"o", "u", "t", "/", "t">>],
      [given |-> TRUE, path |-> <<"o", "u", "t", "/", "t", ".", "c", "s", "v">>],
      [given |-> TRUE, path |-> <<"t", ".", "c", "s", "v">>] }

DirResults == <<"r", "e", "s", "u", "l", "t", "s">>
DirOut     == <<"o", "u", "t">>

IdModality == <<"(", "0", "0", "0", "8", ",", "0", "0", "6", "0", ")">>
IdPatient  == <<"(", "0", "0", "1", "0", ",", "0", "0", "1", "0", ")">>
NameModality == <<"M", "o", "d">>
NamePatient  == <<"P", "a", "t">>
FilePathKey  == <<"F", "i", "l", "e", "P", "a", "t", "h">>

Field(k, v) == [key |-> k, value |-> v]

\* selected_tags.json as json.load returns it: the (key, value) pairs in the
\* order of the document
FieldSpecs ==
    { \* the keys are the '(gggg,eeee)' strings
      << Field(IdModality, NameModality), Field(IdPatient, NamePatient) >>,
      \* a key that is a name, its value the '(gggg,eeee)' string
      << Field(NameModality, IdModality), Field(IdPatient, NamePatient) >>,
      \* keys that convert_string_to_tag cannot convert: one token, three tokens,
      \* a character that is no hex digit, a word above 0xFFFF, an empty token
      << Field(IdModality, NameModality),
         Field(<<"(", "8", ")">>, <<"a">>),
         Field(<<"(", "8", ",", "6", "0", ",", "1", ")">>, <<"b">>),
         Field(<<"(", "G", ",", "1", ")">>, <<"c">>),
         Field(<<"(", "1", "0", "0", "0", "0", ",", "1", ")">>, <<"d">>),
         Field(<<"(", ",", "1", ")">>, <<"e">>),
         Field(IdPatient, NamePatient) >>,
      \* a key that is the name of the path column
      << Field(FilePathKey, IdModality), Field(IdModality, NameModality) >>,
      \* the empty object
      << >> }

\* the document at selected_tags.json: absent; no JSON; a JSON number, boolean or
\* null; a JSON array or string; a JSON object
TagsDocs ==
    { [kind |-> k, fields |-> <<>>] : k \in {"missing", "malformed", "scalar", "array"} }
    \cup { [kind |-> "object", fields |-> f] : f \in FieldSpecs }

AbsentFile == [exists |-> FALSE, chunks |-> <<>>]
OldFile    == [exists |-> TRUE, chunks |-> << <<"o", "l", "d", "\n">> >>]

(***************************************************************************)
(* The extraction of one row                                               *)
(***************************************************************************)
\* list(selected_tags.keys())
Keys(selected_tags) == [i \in 1..Len(selected_tags) |-> selected_tags[i].key]

\* the body of the loop over the fields: the tag of tag_str looked up in ds, None
\* when it is absent or anything raised, then the text of the cell
FieldCell(ds, tag_str) ==
    LET conv  == convert_string_to_tag(tag_str)
        value == IF conv.raised THEN NoneValue
                 ELSE IF conv.tag \in DOMAIN ds THEN ds[conv.tag]
                 ELSE NoneValue
    IN  IF value # NoneValue THEN Replace(Str(value), ";", ",") ELSE <<>>

\* a faulty variant of ExtractData: the fields looked up by the values of the mapping
ExtractData_byValue(selected_tags, ds) ==
    [tag_str \in {selected_tags[i].key : i \in 1..Len(selected_tags)} |->
        FieldCell(ds, selected_tags[CHOOSE i \in 1..Len(selected_tags) :
                                        selected_tags[i].key = tag_str].value)]

\* the dict data after the loop over selected_tags.keys()
ExtractData(selected_tags, ds) ==
    [tag_str \in {selected_tags[i].key : i \in 1..Len(selected_tags)} |->
        FieldCell(ds, tag_str)]

\* data['FilePath'] = file
WithFilePath(data, file) ==
    [k \in DOMAIN data \cup {FilePathKey} |-> IF k = FilePathKey THEN file ELSE data[k]]

\* the header line
HeaderText(selected_tags) ==
    Join(Keys(selected_tags) \o <<FilePathKey>>, <<";">>) \o <<"\n">>

\* the line of one file: data.get(tag, '') of every key and of 'FilePath'
RowText(selected_tags, data) ==
    LET cols == Keys(selected_tags) \o <<FilePathKey>>
    IN  Join([i \in 1..Len(cols) |-> IF cols[i] \in DOMAIN data THEN data[cols[i]] ELSE <<>>],
             <<";">>) \o <<"\n">>

\* the destination: results/<name of the root>.csv, or the path given, with
\* '.csv' appended when it does not end in it
ResolveOutput(path_shared_folder, arg) ==
    LET shared_folder == Basename(Normpath(path_shared_folder))
    IN  IF ~arg.given
        THEN DirResults \o <<"/">> \o shared_folder \o <<".", "c", "s", "v">>
        ELSE IF EndsWith(arg.path, <<".", "c", "s", "v">>) THEN arg.path
        ELSE arg.path \o <<".", "c", "s", "v">>

\* whether the directory a path lies in exists ('' is the working directory)
ParentExists(path, dirset) == Dirname(path) = <<>> \/ Dirname(path) \in dirset

(***************************************************************************)
(* The state of a run                                                      *)
(***************************************************************************)
VARIABLES
    argRoot,        \* args.path_shared_folder
    argOut,         \* args.output_dir
    rootExists,     \* whether the root directory exists
    present,        \* the numbers of the DICOM files under the root
    tagsDoc,        \* the document at selected_tags.json
    dirs,           \* the directories that exist, of those a destination can lie in
    destBefore,     \* the file at the destination path before the run
    destFile,       \* the file at the destination path
    pc,             \* where the run is
    output_dir,     \* the destination path
    dicom_files,    \* the list list_dicom_files returned
    selected_tags,  \* what json.load returned, when it is an object
    idx,            \* the position of the loop in dicom_files
    handle,         \* output_file: "none", "open" or "closed"
    retval,         \* what main returned: "none" or "1"
    success,        \* the flag of the __main__ block
    logged,         \* the error and final messages logged
    processed,      \* the paths handed to pydicom.dcmread, in order
    rowFiles,       \* the paths whose line was written, in order
    ioFaults        \* the operations on the destination that failed

inputs == <<argRoot, argOut, rootExists, present, tagsDoc, destBefore>>
vars == <<argRoot, argOut, rootExists, present, tagsDoc, dirs, destBefore, destFile,
          pc, output_dir, dicom_files, selected_tags, idx, handle, retval, success,
          logged, processed, rowFiles, ioFaults>>

\* the outcomes of an operation on the destination: it may fail while the run
\* has faults left
Faults == IF ioFaults < MaxIOFaults THEN {FALSE, TRUE} ELSE {FALSE}

Init ==
    /\ argRoot \in RootArgs
    /\ argOut \in OutputArgs
    /\ rootExists \in BOOLEAN
    /\ \E lo \in 1..(MaxFiles + 1), hi \in 0..MaxFiles :
          present = IF rootExists THEN lo..hi ELSE {}
    /\ tagsDoc \in TagsDocs
    /\ dirs \in { {}, {DirResults, DirOut} }
    /\ destBefore \in {AbsentFile} \cup
                      (IF ParentExists(ResolveOutput(argRoot, argOut), dirs)
                       THEN {OldFile} ELSE {})
    /\ destFile = destBefore
    /\ pc = "start"
    /\ output_dir = <<>>
    /\ dicom_files = <<>>
    /\ selected_tags = <<>>
    /\ idx = 0
    /\ handle = "none"
    /\ retval = "none"
    /\ success = TRUE
    /\ logged = {}
    /\ processed = <<>>
    /\ rowFiles = <<>>
    /\ ioFaults = 0

(***************************************************************************)
(* main, one action per step                                               *)
(***************************************************************************)
\* lines 102-110: the destination path
Resolve ==
    /\ pc = "start"
    /\ output_dir' = ResolveOutput(argRoot, argOut)
    /\ pc' = "ensure"
    /\ UNCHANGED <<inputs, dirs, destFile, dicom_files, selected_tags, idx, handle,
                   retval, success, logged, processed, rowFiles, ioFaults>>

\* lines 117-119: os.makedirs of the destination's directory, only when the root
\* does not exist; os.makedirs('') raises FileNotFoundError
EnsureDir ==
    /\ pc = "ensure"
    /\ IF rootExists
       THEN pc' = "list" /\ dirs' = dirs
       ELSE IF Dirname(output_dir) = <<>>
            THEN pc' = "raised" /\ dirs' = dirs
            ELSE pc' = "list" /\ dirs' = dirs \cup {Dirname(output_dir)}
    /\ UNCHANGED <<inputs, destFile, output_dir, dicom_files, selected_tags, idx, handle,
                   retval, success, logged, processed, rowFiles, ioFaults>>

\* lines 123-126: the discovery; main returns 1 when it finds nothing
ListFiles ==
    /\ pc = "list"
    /\ dicom_files' = list_dicom_files(Walk(argRoot, rootExists, present))
    /\ IF dicom_files' = <<>>
       THEN /\ logged' = logged \cup {"no_files"}
            /\ retval' = "1"
            /\ pc' = "returned"
       ELSE /\ pc' = "sample"
            /\ UNCHANGED <<logged, retval>>
    /\ UNCHANGED <<inputs, dirs, destFile, output_dir, selected_tags, idx, handle,
                   success, processed, rowFiles, ioFaults>>

\* lines 127-128: random.sample(dicom_files, 10) raises ValueError when the list
\* is shorter than the sample
LogSample ==
    /\ pc = "sample"
    /\ pc' = IF Len(dicom_files) < SampleSize THEN "raised" ELSE "tags"
    /\ UNCHANGED <<inputs, dirs, destFile, output_dir, dicom_files, selected_tags, idx,
                   handle, retval, success, logged, processed, rowFiles, ioFaults>>

\* a faulty variant of CheckTags: the destination opened before the document is
\* looked for
CheckTags_openFirst ==
    /\ pc = "tags"
    /\ destFile' = [exists |-> TRUE, chunks |-> <<>>]
    /\ handle' = "open"
    /\ IF tagsDoc.kind = "missing"
       THEN /\ logged' = logged \cup {"tags_missing"}
            /\ retval' = "1"
            /\ pc' = "returned"
       ELSE /\ pc' = "load"
            /\ UNCHANGED <<logged, retval>>
    /\ UNCHANGED <<inputs, dirs, output_dir, dicom_files, selected_tags, idx,
                   success, processed, rowFiles, ioFaults>>

\* lines 131-134: main returns 1 when selected_tags.json does not exist
CheckTags ==
    /\ pc = "tags"
    /\ IF tagsDoc.kind = "missing"
       THEN /\ logged' = logged \cup {"tags_missing"}
            /\ retval' = "1"
            /\ pc' = "returned"
       ELSE /\ pc' = "load"
            /\ UNCHANGED <<logged, retval>>
    /\ UNCHANGED <<inputs, dirs, destFile, output_dir, dicom_files, selected_tags, idx,
                   handle, success, processed, rowFiles, ioFaults>>

\* lines 135-142: json.load; main returns 1 on a JSONDecodeError; len() of a
\* number, a boolean or null raises TypeError, which nothing in main catches
LoadTags ==
    /\ pc = "load"
    /\ CASE tagsDoc.kind = "malformed" ->
              /\ logged' = logged \cup {"json_error"}
              /\ retval' = "1"
              /\ pc' = "returned"
              /\ UNCHANGED selected_tags
         [] tagsDoc.kind = "scalar" ->
              /\ pc' = "raised"
              /\ UNCHANGED <<logged, retval, selected_tags>>
         [] tagsDoc.kind = "array" ->
              /\ pc' = "open"
              /\ UNCHANGED <<logged, retval, selected_tags>>
         [] tagsDoc.kind = "object" ->
              /\ selected_tags' = tagsDoc.fields
              /\ pc' = "open"
              /\ UNCHANGED <<logged, retval>>
    /\ UNCHANGED <<inputs, dirs, destFile, output_dir, dicom_files, idx, handle,
                   success, processed, rowFiles, ioFaults>>

\* line 147: open(output_dir, 'w') creates or truncates the file; it raises when
\* the directory does not exist or the file cannot be opened
OpenOutput ==
    /\ pc = "open"
    /\ \E fault \in Faults :
          IF ~ParentExists(output_dir, dirs) \/ fault
          THEN /\ pc' = "raised"
               /\ ioFaults' = IF fault THEN ioFaults + 1 ELSE ioFaults
               /\ UNCHANGED <<destFile, handle>>
          ELSE /\ destFile' = [exists |-> TRUE, chunks |-> <<>>]
               /\ handle' = "open"
               /\ pc' = "header"
               /\ UNCHANGED ioFaults
    /\ UNCHANGED <<inputs, dirs, output_dir, dicom_files, selected_tags, idx, retval,
                   success, logged, processed, rowFiles>>

\* line 148: the header; selected_tags.keys() raises AttributeError when the
\* document is no object, and the write may fail
WriteHeader ==
    /\ pc = "header"
    /\ \E fault \in Faults :
          IF tagsDoc.kind # "object" \/ fault
          THEN /\ pc' = "raised"
               /\ ioFaults' = IF tagsDoc.kind = "object" THEN ioFaults + 1 ELSE ioFaults
               /\ UNCHANGED <<destFile, idx>>
          ELSE /\ destFile' = [destFile EXCEPT !.chunks = Append(@, HeaderText(selected_tags))]
               /\ idx' = 1
               /\ pc' = "loop"
               /\ UNCHANGED ioFaults
    /\ UNCHANGED <<inputs, dirs, output_dir, dicom_files, selected_tags, handle, retval,
                   success, logged, processed, rowFiles>>

\* lines 152-181, one iteration: dcmread, the two [0] of line 159, the row and
\* its write; whatever raises is caught at line 180, logged, and the loop goes on
ProcessFile ==
    /\ pc = "loop"
    /\ idx <= Len(dicom_files)
    /\ LET file == dicom_files[idx]
           read == FileContent(FileAt(file))
           skip == read.raised \/ DOMAIN read.ds = {} \/ Keys(selected_tags) = <<>>
           data == WithFilePath(ExtractData(selected_tags, read.ds), file)
       IN  /\ processed' = Append(processed, file)
           /\ \E fault \in Faults :
                 IF skip \/ fault
                 THEN /\ logged' = logged \cup {"read_error"}
                      /\ ioFaults' = IF skip THEN ioFaults ELSE ioFaults + 1
                      /\ UNCHANGED <<destFile, rowFiles>>
                 ELSE /\ destFile' = [destFile EXCEPT
                                        !.chunks = Append(@, RowText(selected_tags, data))]
                      /\ rowFiles' = Append(rowFiles, file)
                      /\ UNCHANGED <<logged, ioFaults>>
    /\ idx' = idx + 1
    /\ UNCHANGED <<inputs, dirs, pc, output_dir, dicom_files, selected_tags, handle,
                   retval, success>>

\* lines 183-184: after the loop the file is closed and main returns 1
FinishLoop ==
    /\ pc = "loop"
    /\ idx > Len(dicom_files)
    /\ handle' = "closed"
    /\ retval' = "1"
    /\ pc' = "returned"
    /\ UNCHANGED <<inputs, dirs, destFile, output_dir, dicom_files, selected_tags, idx,
                   success, logged, processed, rowFiles, ioFaults>>

\* lines 190-199: the __main__ block drops what main returned; success is FALSE
\* only when main raised.  A file main left open is closed with the frame of main
\* by an interpreter that counts references, and stays open with another.
Report ==
    /\ pc \in {"returned", "raised"}
    /\ success' = (pc = "returned")
    /\ logged' = logged \cup (IF pc = "returned" THEN {"completed"} ELSE {"exception", "failed"})
    /\ \E finalized \in BOOLEAN :
          handle' = IF handle = "open" /\ finalized THEN "closed" ELSE handle
    /\ pc' = "done"
    /\ UNCHANGED <<inputs, dirs, destFile, output_dir, dicom_files, selected_tags, idx,
                   retval, processed, rowFiles, ioFaults>>

Next ==
    \/ Resolve
    \/ EnsureDir
    \/ ListFiles
    \/ LogSample
    \/ CheckTags
    \/ LoadTags
    \/ OpenOutput
    \/ WriteHeader
    \/ ProcessFile
    \/ FinishLoop
    \/ Report

Spec == Init /\ [][Next]_vars

(***************************************************************************)
(* What the properties speak of                                            *)
(***************************************************************************)
\* a written chunk without its newline
Line(chunk) == SubSeq(chunk, 1, Len(chunk) - 1)

\* the lines of this run below the header, none before the header is written
DataLines ==
    IF handle = "none" \/ destFile.chunks = <<>> THEN <<>>
    ELSE [j \in 1..(Len(destFile.chunks) - 1) |-> Line(destFile.chunks[j + 1])]

\* the dataset of the file at a path that decodes
DatasetAt(path) == FileContent(FileAt(path)).ds

Decodes(path) == ~FileContent(FileAt(path)).raised

\* the run ended on one of the errors main logs and returns from
NoInput == "no_files" \in logged
ConfigError == "tags_missing" \in logged \/ "json_error" \in logged

\* the header of this run is in the destination
HeaderWritten ==
    /\ handle # "none"
    /\ destFile.chunks # <<>>
    /\ destFile.chunks[1] = Join(Keys(tagsDoc.fields) \o <<FilePathKey>>, <<";">>) \o <<"\n">>

\* the destination could be written all along: its directory was there and no
\* operation on it failed
Writable == ParentExists(output_dir, dirs) /\ ioFaults = 0

\* the cell the claims give a field whose identifier string is id, in a file
\* with dataset ds: str(V) with ';' replaced when the tag is there with a value
\* V, empty when it is absent or id is malformed
CellOf(ds, id) ==
    LET conv == convert_string_to_tag(id)
    IN  IF conv.raised THEN <<>>
        ELSE IF conv.tag \notin DOMAIN ds THEN <<>>
        ELSE IF ds[conv.tag] = NoneValue THEN <<>>
        ELSE Replace(Str(ds[conv.tag]), ";", ",")

(***************************************************************************)
(* C1                                                                      *)
(***************************************************************************)
\* C1: every data line written splits on ';' into len(selected_tags) + 1
\* columns, whatever the values and the path of the file.
\* The code writes the path as it is: a path that holds a ';' adds a column.
C1_ColumnCount ==
    \A j \in 1..Len(DataLines) :
        Len(Split(DataLines[j], ";")) = Len(selected_tags) + 1

(***************************************************************************)
(* C2                                                                      *)
(***************************************************************************)
\* C2: a finished run that discovered at least one file, with a loadable
\* specification and a writable destination, leaves the header and below it one
\* line per file that decodes, in discovery order, and no other line.
\* The code raises ValueError at random.sample when fewer than 10 files were
\* discovered (C9), and skips a decoded file whose dataset is empty.
C2_OneLinePerDecodedFile ==
    (pc = "done" /\ dicom_files # <<>> /\ tagsDoc.kind = "object" /\ Writable)
    => LET decoded == SelectSeq(dicom_files, Decodes)
       IN  /\ HeaderWritten
           /\ Len(DataLines) = Len(decoded)
           /\ \A j \in 1..Len(DataLines) : EndsWith(DataLines[j], decoded[j])

(***************************************************************************)
(* C3                                                                      *)
(***************************************************************************)
\* C3: in the line of every file, the column of a field is str(V) when the
\* field's identifier is in the file with a value V without ';', empty when the
\* identifier is absent, and empty when the identifier string is malformed; a
\* malformed field leaves the columns of the other fields as they are.
\* The code overwrites data['FilePath'] with the path, so the column of a field
\* whose identifier string is 'FilePath' holds the path.
C3_RoundTrip ==
    \A j \in 1..Len(DataLines) : \A i \in 1..Len(selected_tags) :
        LET cols == Split(DataLines[j], ";")
            ds   == DatasetAt(rowFiles[j])
            conv == convert_string_to_tag(selected_tags[i].key)
        IN  /\ conv.raised => cols[i] = <<>>
            /\ (~conv.raised /\ conv.tag \notin DOMAIN ds) => cols[i] = <<>>
            /\ (/\ ~conv.raised
                /\ conv.tag \in DOMAIN ds
                /\ ds[conv.tag] # NoneValue
                /\ Find(Str(ds[conv.tag]), ";") = 0) => cols[i] = Str(ds[conv.tag])

(***************************************************************************)
(* C4                                                                      *)
(***************************************************************************)
\* C4: once a run has ended because no file was discovered, or because
\* selected_tags.json is missing or is no JSON, the destination was never
\* opened, and the file at its path is what it was before the run: absent when
\* it was absent, unchanged when it was there.
C4_NoOutputOnNoInputOrConfigError ==
    (NoInput \/ ConfigError) => (handle = "none" /\ destFile = destBefore)

\* a run over an existing destination ended on a missing selected_tags.json
C4_Witness == pc = "done" /\ "tags_missing" \in logged /\ destBefore = OldFile

(***************************************************************************)
(* C5                                                                      *)
(***************************************************************************)
\* C5: a run that ended on a fatal error (nothing discovered, the specification
\* missing or malformed, the destination unwritable) reports failure, and only a
\* run that completed the writing loop reports success.
\* The code drops what main returns: success stays TRUE unless main raised.
C5_FatalReportsFailure ==
    pc = "done" =>
        /\ (NoInput \/ ConfigError \/ "exception" \in logged) => ~success
        /\ success => (handle = "closed" /\ idx > Len(dicom_files))

(***************************************************************************)
(* C6                                                                      *)
(***************************************************************************)
\* C6: a failing operation on the destination (the open, the header, a data
\* line) ends the run at that point, and the run reports failure.
\* The code writes the data line inside the try of the file: the failure is
\* logged as an error of that file and the loop goes on.
C6_DestinationErrorIsFatal ==
    ioFaults > 0 => (pc \in {"raised", "done"} /\ (pc = "done" => ~success))

(***************************************************************************)
(* C7                                                                      *)
(***************************************************************************)
\* C7: when the run comes to open the destination, the directory of the
\* destination exists.
\* The code calls os.makedirs only when the root does not exist, and then the
\* run never comes to the open.
C7_ParentEnsuredBeforeOpen ==
    pc = "open" => ParentExists(output_dir, dirs)

(***************************************************************************)
(* C8                                                                      *)
(***************************************************************************)
\* C8: no finished run leaves the destination open.
\* The code closes the file only after the loop; when the header raises, the
\* file is closed only if the interpreter finalizes it.
C8_ClosedWhenDone ==
    pc = "done" => handle # "open"

(***************************************************************************)
(* C9                                                                      *)
(***************************************************************************)
\* C9: a finished run that discovered at least one file, with a loadable
\* specification and a writable destination, has written the header and handed
\* every discovered file to pydicom.dcmread exactly once, in order.
\* The code raises ValueError at random.sample(dicom_files, 10) when fewer than
\* 10 files were discovered.
C9_EveryFileExtracted ==
    (pc = "done" /\ dicom_files # <<>> /\ tagsDoc.kind = "object" /\ Writable)
    => (HeaderWritten /\ processed = dicom_files)

(***************************************************************************)
(* C10                                                                     *)
(***************************************************************************)
\* C10, as claimed: the header lists the keys of the mapping and FilePath, and
\* the column of a field is what the lookup of the field's identifier string,
\* the value of the mapping, gives.
C10_LookupByValue ==
    /\ idx >= 1 => HeaderWritten
    /\ \A j \in 1..Len(DataLines) : \A i \in 1..Len(selected_tags) :
          selected_tags[i].key # FilePathKey
          => Split(DataLines[j], ";")[i] = CellOf(DatasetAt(rowFiles[j]), selected_tags[i].value)

\* C10, amended: the header lists the keys of the mapping in order and FilePath,
\* and every line is the join of, for each key in order, what the lookup of the
\* key itself gives (the path for the key 'FilePath'), and then the path; the
\* values of the mapping are never read.
C10_LookupByKey ==
    /\ idx >= 1 => HeaderWritten
    /\ Len(rowFiles) = Len(DataLines)
    /\ \A j \in 1..Len(DataLines) :
          DataLines[j] =
              Join([i \in 1..Len(selected_tags) |->
                       IF selected_tags[i].key = FilePathKey THEN rowFiles[j]
                       ELSE CellOf(DatasetAt(rowFiles[j]), selected_tags[i].key)]
                   \o <<rowFiles[j]>>, <<";">>)

\* a line was written for a file that holds a Modality, under a mapping whose
\* first key is a name and whose first value is the identifier of Modality: the
\* column is empty
C10_Witness ==
    \E j \in 1..Len(DataLines) :
        /\ selected_tags # <<>>
        /\ selected_tags[1] = Field(NameModality, IdModality)
        /\ TagModality \in DOMAIN DatasetAt(rowFiles[j])
        /\ DatasetAt(rowFiles[j])[TagModality] # NoneValue
        /\ Split(DataLines[j], ";")[1] = <<>>

====
